---- MODULE Spec2Model ----
(***************************************************************************)
(* A model of safe-queue (src/queue.go): a bounded lock-free MPMC FIFO     *)
(* queue.  Producers reserve positions by CAS on tail, consumers by CAS    *)
(* on head; every slot carries two sequence numbers (getSeq, putSeq) that  *)
(* gate the write and the read of its value.                               *)
(*                                                                         *)
(* Every atomic load, CAS and add of the source, and every plain access of *)
(* a slot's value, is one step of the thread that performs it; the local   *)
(* computation that follows an access belongs to the same step.            *)
(*                                                                         *)
(* The counters are uint32 in the source.  TLC's integers stop at 2^31-1,  *)
(* so the model keeps every counter modulo 2^WordBits: the arithmetic is   *)
(* the source's, at a narrower width.                                      *)
(***************************************************************************)
EXTENDS Integers, Sequences, FiniteSets, TLC

(* ------------------------------ bounds -------------------------------- *)

\* Width in bits of the unsigned counters (32 in the source).
WordBits == 6
\* Number of concurrent threads (goroutines) calling the queue.
NThreads == 2
\* Total number of calls the threads start in one behaviour of the
\* specification with Put, Get, MustPut and MustGet.
MaxCalls == 4
\* The same for the specification with Put and Get only.
MaxCallsTry == 6
\* The same for the specification with concurrent batch calls.
MaxCallsBatch == 4
\* The same for the specification with one call at a time.
MaxCallsSeq == 3
\* Largest capacity requested from New.
MaxCapRequest == 2
\* Largest number of values handed to PutEnough / asked from GetEnough.
MaxBatch == 3
\* How far below the counter wrap a behaviour may start.
MaxBack == 5
\* Total number of calls on a queue after its construction by New.
MaxCallsNew == 2
\* Number k of threads that call MustPut once, and of calls of MustGet.
MustPairs == 3
\* Number of threads that make the calls of MustGet.
MustGetThreads == 1
\* Total number of calls in the specification with concurrent calls of Len.
MaxCallsLen == 3
Word == 2 ^ WordBits
Threads == 1 .. NThreads

\* uint32 arithmetic: every result is reduced modulo the word size.
U32(x) == x % Word

(* ------------------------- bit operations ----------------------------- *)

RECURSIVE BitAnd(_, _)
\* a & b on unsigned words.
BitAnd(a, b) ==
    IF a = 0 \/ b = 0 THEN 0
    ELSE (IF a % 2 = 1 /\ b % 2 = 1 THEN 1 ELSE 0) + 2 * BitAnd(a \div 2, b \div 2)

RECURSIVE BitOr(_, _)
\* a | b on unsigned words.
BitOr(a, b) ==
    IF a = 0 THEN b
    ELSE IF b = 0 THEN a
    ELSE (IF a % 2 = 1 \/ b % 2 = 1 THEN 1 ELSE 0) + 2 * BitOr(a \div 2, b \div 2)

\* a >> k on unsigned words.
Shr(a, k) == a \div (2 ^ k)

RECURSIVE Spread(_, _)
\* capacity |= capacity >> 1; ... >> 2; ... : the shifts 1, 2, 4, ... below
\* the word width (1, 2, 4, 8, 16 for 32 bits).
Spread(c, k) ==
    IF k >= WordBits THEN c ELSE Spread(BitOr(c, Shr(c, k)), 2 * k)

\* The capacity New(capacity) gives the queue.
NewCapacity(c) ==
    LET d == U32(c - 1)
        s == Spread(d, 1)
        r == U32(s + 1)
    IN  IF r < 2 THEN 2 ELSE r

\* The slots New builds for a queue of capacity cap: (i, i), slot 0 (cap, cap).
NewElements(cap) ==
    [i \in 0 .. cap - 1 |->
        [getSeq |-> IF i = 0 THEN cap ELSE i,
         putSeq |-> IF i = 0 THEN cap ELSE i,
         value  |-> 0]]

\* The slots of a queue of capacity cap that is empty with head = tail = h
\* after h elements went through it: the slot of each of the next cap
\* positions h+1 .. h+cap waits for that position.  For h = 0 these are the
\* slots New builds.
DrainedElements(cap, h) ==
    [i \in 0 .. cap - 1 |->
        LET p == CHOOSE q \in {U32(h + k) : k \in 1 .. cap} : BitAnd(q, cap - 1) = i
        IN  [getSeq |-> p, putSeq |-> p, value |-> 0]]

(* ------------------------------ state --------------------------------- *)

VARIABLES
    capacity,   \* Queue.capacity
    mask,       \* Queue.mask
    head,       \* Queue.head
    tail,       \* Queue.tail
    elements,   \* Queue.elements: slot index -> [getSeq, putSeq, value]
    pc,         \* thread -> the statement it executes next
    th,         \* thread -> the locals of its call
    calls,      \* number of calls started so far
    nextVal,    \* the next value a caller passes to the queue
    request,    \* history: the capacity New was called with
    h0,         \* history: head = tail at the start of the behaviour
    produced,   \* history: the values in the order of the tail CAS
    published,  \* history: <<n, v>> when the n-th reserved put published v
    got,        \* history: <<n, v>> when the n-th reserved get returned v
    accepted,   \* history: elements accepted by completed insert calls
    handed,     \* history: elements handed out by completed remove calls
    seen,       \* history: thread -> what its last reservation attempt
                \* observed, and how the queue stood while it did
    pre,        \* history: the queue as the call under way found it (kept
                \* where calls run one at a time)
    test        \* TestUint32Overflow: its loop variables i, j and where it is

vars == <<capacity, mask, head, tail, elements, pc, th, calls, nextVal,
          request, h0, produced, published, got, accepted, handed, seen,
          pre, test>>

queueVars == <<capacity, mask, head, tail, elements>>
pastVars  == <<request, h0, produced, published, got, accepted, handed>>
histVars  == <<pastVars, seen>>
testVars  == <<test>>

\* The zero value of the element type; callers pass values 1, 2, ...
Zero == 0

\* Nothing observed: sawFull / sawEmpty, the attempt found the queue full /
\* empty; full, the queue had no free slot at some instant between the
\* attempt's load of head and its load of tail; empty, the queue was empty
\* at the attempt's load of tail.  An attempt that finds the queue neither
\* full nor empty keeps no observation.
NoneSeen == [sawFull |-> FALSE, full |-> FALSE, sawEmpty |-> FALSE, empty |-> FALSE]

\* No snapshot: no call has started on a quiescent queue yet.
NoSnap == [quiescent |-> FALSE]

\* The locals of a thread that is in no call.
IdleLocals ==
    [op |-> "none", values |-> <<>>, value |-> Zero, size |-> 0,
     acqSize |-> 0, head |-> 0, tail |-> 0,
     position |-> 0, actualSize |-> 0, left |-> 0, used |-> 0,
     i |-> 0, j |-> 0, val |-> Zero, res |-> <<>>, err |-> "nil", len |-> 0]

\* No call is in flight: every thread is before its first call or has
\* returned from its last one (and still holds what that call returned).
Quiescent == \A t \in Threads : pc[t] \in {"idle", "done"}

\* Init for a queue built by New(c) whose counters stand at h, called by the
\* threads of T.
InitFor(c, h, T) ==
    /\ capacity = NewCapacity(c)
    /\ mask = NewCapacity(c) - 1
    /\ head = h
    /\ tail = h
    /\ elements = IF h = 0 THEN NewElements(NewCapacity(c))
                           ELSE DrainedElements(NewCapacity(c), h)
    /\ pc = [t \in T |-> "idle"]
    /\ th = [t \in T |-> IdleLocals]
    /\ calls = 0
    /\ nextVal = 1
    /\ request = c
    /\ h0 = h
    /\ produced = <<>>
    /\ published = {}
    /\ got = {}
    /\ accepted = 0
    /\ handed = 0
    /\ seen = [t \in T |-> NoneSeen]
    /\ pre = NoSnap
    /\ test = [i |-> 0, j |-> 0, at |-> "fill"]

\* Init for a queue built by New(c) whose counters stand at h.
InitAt(c, h) == InitFor(c, h, Threads)

\* The counter values a behaviour starts from: 0 (New), and the values up to
\* MaxBack below the wrap, which an empty queue reaches after that many
\* elements went through it.
StartCounters == {0} \cup {Word - k : k \in 1 .. MaxBack}

CapRequests == 0 .. MaxCapRequest

(* ----------------------------- helpers -------------------------------- *)

\* Mutant: the distance computed one too large.
UsedSizeOffByOne(tl, hd) == U32(tl - hd + 1)

\* Mutant: the distance computed one too small.
UsedSizeOneShort(tl, hd) == U32(tl - hd - 1)

\* Mutant: a subtraction that stops at 0 instead of wrapping.
UsedSizeSaturating(tl, hd) == IF tl >= hd THEN tl - hd ELSE 0

\* usedSize(tail, head)
usedSize(tl, hd) == U32(tl - hd)

\* Mutant: the free count computed one too large.
LeftSizeOffByOne(tl, hd) == U32(capacity + 1 - usedSize(tl, hd))

\* leftSize(tail, head)
leftSize(tl, hd) == U32(capacity - usedSize(tl, hd))

\* Len(): the difference of the two loads.
LenOf(tl, hd) == U32(tl - hd)

\* position & q.mask
SlotIndex(position) == BitAnd(position, mask)

\* min(size, n): "if size > n { size = n }"
Clamp(size, n) == IF size > n THEN n ELSE size

\* Mutant: put does not wait for the consumer of the lap before.
PutIgnoresGetSeq(e, position) == TRUE

\* Mutant: put waits for the slot to be published for its position already.
PutSeesPublished(e, position) == position = U32(e.putSeq - capacity)

\* The two halves of put's handshake on slot e.
PutSeesGetSeq(e, position) == position = e.getSeq
PutSeesPutSeq(e, position) == position = e.putSeq

\* The two halves of get's handshake on slot e.
GetSeesGetSeq(e, position) == position = e.getSeq
\* Mutant: get takes a publication of any lap for the one of its position.
GetSeesAnyLap(e, position) == e.putSeq % capacity = position % capacity

\* Mutant: get does not wait for the producer of its position.
GetIgnoresPutSeq(e, position) == TRUE

\* Mutant: get compares with putSeq itself, the value before publication.
GetSeesUnpublished(e, position) == position = e.putSeq

GetSeesPutSeq(e, position) == position = U32(e.putSeq - capacity)

\* The condition of the batch loops: i < position+actualSize, in uint32.
InBatch(i, position, actualSize) == i < U32(position + actualSize)

\* The position handed to put / get by the call of thread t: the loop
\* variable of a batch call, the reserved position of a single call.
Batch(t) == th[t].op \in {"PutEnough", "GetEnough"}
PosArg(t) == IF Batch(t) THEN th[t].i ELSE th[t].position
ValArg(t) == IF Batch(t) THEN th[t].values[th[t].j + 1] ELSE th[t].value

\* The queue with counters tl and hd has no free slot.
NoFreeSlot(tl, hd) == usedSize(tl, hd) >= capacity

\* The history of observations after a CAS moved the counters to tl and hd:
\* every thread between its loads of head and tail in acquirePut notes a queue
\* without a free slot.
SeenAfter(tl, hd) ==
    [u \in DOMAIN seen |->
        IF pc[u] = "ap_tail"
        THEN [seen[u] EXCEPT !.full = @ \/ NoFreeSlot(tl, hd)]
        ELSE seen[u]]

\* The n-th reservation, counted from 1, is the one that claimed position p.
Ticket(p) == U32(p - h0 - 1) + 1

\* The snapshot a call of thread t takes when it starts on a quiescent
\* queue: the queue, and the call that ran just before it on a quiescent
\* queue (its locals as it returned, and whether the queue was empty then).
Snap(t) ==
    [quiescent |-> TRUE, thread |-> t, head |-> head, tail |-> tail,
     elements |-> elements,
     last |-> IF pre.quiescent THEN th[pre.thread] ELSE IdleLocals,
     lastOnEmpty |-> pre.quiescent /\ pre.head = pre.tail]

(* ------------------------- starting a call ---------------------------- *)

\* A thread starts a call when it is in none.
CanStart(t) == pc[t] \in {"idle", "done"}

\* The threads of one kind are interchangeable, so they make their first
\* calls in the order of their numbers: every behaviour is one of these up to
\* the threads' names.
InTurn(t, kind) == \A u \in kind : u < t => pc[u] # "idle"

Begin(t, label, locals) ==
    /\ pc' = [pc EXCEPT ![t] = label]
    /\ th' = [th EXCEPT ![t] = locals]
    /\ calls' = calls + 1
    /\ UNCHANGED <<queueVars, histVars>>

\* q.Put(value)
PutCall(t, value) ==
    /\ CanStart(t)
    /\ nextVal' = nextVal + 1
    /\ Begin(t, "ap_head", [IdleLocals EXCEPT !.op = "Put", !.value = value, !.acqSize = 1])

\* q.MustPut(value)
MustPutCall(t, value) ==
    /\ CanStart(t)
    /\ nextVal' = nextVal + 1
    /\ Begin(t, "ap_head", [IdleLocals EXCEPT !.op = "MustPut", !.value = value, !.acqSize = 1])

\* q.Get()
GetCall(t) ==
    /\ CanStart(t)
    /\ nextVal' = nextVal
    /\ Begin(t, "ag_head", [IdleLocals EXCEPT !.op = "Get", !.acqSize = 1])

\* q.MustGet()
MustGetCall(t) ==
    /\ CanStart(t)
    /\ nextVal' = nextVal
    /\ Begin(t, "ag_head", [IdleLocals EXCEPT !.op = "MustGet", !.acqSize = 1])

\* q.PutEnough(values...): with no values it answers from Cap and Len.
PutEnoughCall(t, values) ==
    /\ CanStart(t)
    /\ nextVal' = nextVal + Len(values)
    /\ Begin(t, IF Len(values) = 0 THEN "len_tail" ELSE "ap_head",
             [IdleLocals EXCEPT !.op = "PutEnough", !.values = values,
                                !.size = Len(values), !.acqSize = Len(values)])

\* q.GetEnough(size): with size 0 it answers from Cap and Len.
GetEnoughCall(t, size) ==
    /\ CanStart(t)
    /\ nextVal' = nextVal
    /\ Begin(t, IF size = 0 THEN "len_tail" ELSE "ag_head",
             [IdleLocals EXCEPT !.op = "GetEnough", !.size = size, !.acqSize = size])

\* q.Len()
LenCall(t) ==
    /\ CanStart(t)
    /\ nextVal' = nextVal
    /\ Begin(t, "len_tail", [IdleLocals EXCEPT !.op = "Len"])

(* ------------------------------ Len ----------------------------------- *)

\* atomic.LoadUint32(&q.tail), the left operand of Len's subtraction.
LenLoadTail(t) ==
    /\ pc[t] = "len_tail"
    /\ th' = [th EXCEPT ![t].tail = tail]
    /\ pc' = [pc EXCEPT ![t] = "len_head"]
    /\ UNCHANGED <<queueVars, histVars, testVars, calls, nextVal, pre>>

\* atomic.LoadUint32(&q.head), the subtraction, and the caller's use of it:
\* Len returns it, PutEnough() and GetEnough(0) return Cap() - Len().
LenLoadHead(t) ==
    /\ pc[t] = "len_head"
    /\ LET n == LenOf(th[t].tail, head)
       IN  th' = [th EXCEPT ![t].tail = 0,
                            ![t].len = n,
                            ![t].left = IF Batch(t) THEN U32(capacity - n) ELSE 0]
    /\ pc' = [pc EXCEPT ![t] = "done"]
    /\ UNCHANGED <<queueVars, histVars, testVars, calls, nextVal, pre>>

(* --------------------------- acquirePut ------------------------------- *)

\* head = atomic.LoadUint32(&q.head)
AcquirePutLoadHead(t) ==
    /\ pc[t] = "ap_head"
    /\ th' = [th EXCEPT ![t].head = head]
    /\ pc' = [pc EXCEPT ![t] = "ap_tail"]
    /\ seen' = [seen EXCEPT ![t] = [NoneSeen EXCEPT !.full = NoFreeSlot(tail, head)]]
    /\ UNCHANGED <<queueVars, pastVars, testVars, calls, nextVal, pre>>

\* tail = atomic.LoadUint32(&q.tail); left = q.leftSize(tail, head); a full
\* queue returns ErrQueueIsFull: Put returns it, PutEnough returns (0, 0),
\* MustPut calls acquirePut again.
AcquirePutLoadTail(t) ==
    /\ pc[t] = "ap_tail"
    /\ LET left == leftSize(tail, th[t].head)
       IN  IF left = 0
           THEN /\ th' = [th EXCEPT ![t].head = 0,
                                    ![t].err = IF th[t].op = "MustPut" THEN "nil" ELSE "ErrQueueIsFull"]
                /\ pc' = [pc EXCEPT ![t] = IF th[t].op = "MustPut" THEN "ap_head" ELSE "done"]
           ELSE /\ th' = [th EXCEPT ![t].head = 0,
                                    ![t].tail = tail,
                                    ![t].left = left,
                                    ![t].acqSize = Clamp(th[t].acqSize, left)]
                /\ pc' = [pc EXCEPT ![t] = "ap_cas"]
    /\ seen' = [seen EXCEPT ![t] =
                    IF leftSize(tail, th[t].head) = 0
                    THEN [@ EXCEPT !.sawFull = TRUE]
                    ELSE NoneSeen]
    /\ UNCHANGED <<queueVars, pastVars, testVars, calls, nextVal, pre>>

\* atomic.CompareAndSwapUint32(&q.tail, tail, tail+size): on success the
\* call owns positions tail+1 .. tail+size and goes on to put (a batch whose
\* loop condition fails at once returns); on failure it yields and retries.
AcquirePutCAS(t) ==
    /\ pc[t] = "ap_cas"
    /\ IF tail = th[t].tail
       THEN LET position   == U32(th[t].tail + 1)
                actualSize == th[t].acqSize
                left       == U32(th[t].left - th[t].acqSize)
                enter      == ~Batch(t) \/ InBatch(position, position, actualSize)
            IN  /\ tail' = U32(th[t].tail + th[t].acqSize)
                /\ th' = [th EXCEPT ![t].tail = 0, ![t].acqSize = 0,
                                    ![t].position = position,
                                    ![t].actualSize = actualSize,
                                    ![t].left = left,
                                    ![t].i = IF Batch(t) THEN position ELSE 0]
                /\ pc' = [pc EXCEPT ![t] = IF enter THEN "put_getSeq" ELSE "done"]
                /\ produced' = produced \o
                      (IF Batch(t) THEN SubSeq(th[t].values, 1, actualSize)
                                   ELSE <<th[t].value>>)
                /\ accepted' = IF enter THEN accepted ELSE accepted + actualSize
                /\ seen' = SeenAfter(U32(th[t].tail + th[t].acqSize), head)
       ELSE /\ th' = [th EXCEPT ![t].tail = 0, ![t].left = 0]
            /\ pc' = [pc EXCEPT ![t] = "ap_head"]
            /\ UNCHANGED <<tail, produced, accepted, seen>>
    /\ UNCHANGED <<capacity, mask, head, elements, request, h0, published, got, handed,
                   testVars, calls, nextVal, pre>>

(* --------------------------- acquireGet ------------------------------- *)

\* head = atomic.LoadUint32(&q.head)
AcquireGetLoadHead(t) ==
    /\ pc[t] = "ag_head"
    /\ th' = [th EXCEPT ![t].head = head]
    /\ pc' = [pc EXCEPT ![t] = "ag_tail"]
    /\ UNCHANGED <<queueVars, histVars, testVars, calls, nextVal, pre>>

\* tail = atomic.LoadUint32(&q.tail); used = q.usedSize(tail, head); an empty
\* queue returns ErrQueueIsEmpty: Get returns it, GetEnough returns
\* (nil, 0, 0), MustGet calls acquireGet again.
AcquireGetLoadTail(t) ==
    /\ pc[t] = "ag_tail"
    /\ LET used == usedSize(tail, th[t].head)
       IN  IF used = 0
           THEN /\ th' = [th EXCEPT ![t].head = 0,
                                    ![t].err = IF th[t].op = "MustGet" THEN "nil" ELSE "ErrQueueIsEmpty"]
                /\ pc' = [pc EXCEPT ![t] = IF th[t].op = "MustGet" THEN "ag_head" ELSE "done"]
           ELSE /\ th' = [th EXCEPT ![t].used = used,
                                    ![t].acqSize = Clamp(th[t].acqSize, used)]
                /\ pc' = [pc EXCEPT ![t] = "ag_cas"]
    /\ seen' = [seen EXCEPT ![t] =
                    IF usedSize(tail, th[t].head) = 0
                    THEN [NoneSeen EXCEPT !.sawEmpty = TRUE, !.empty = (head = tail)]
                    ELSE NoneSeen]
    /\ UNCHANGED <<queueVars, pastVars, testVars, calls, nextVal, pre>>

\* atomic.CompareAndSwapUint32(&q.head, head, head+size): on success the
\* call owns positions head+1 .. head+size and goes on to get; on failure it
\* yields and retries.
AcquireGetCAS(t) ==
    /\ pc[t] = "ag_cas"
    /\ IF head = th[t].head
       THEN LET position   == U32(th[t].head + 1)
                actualSize == th[t].acqSize
                used       == U32(th[t].used - th[t].acqSize)
                enter      == ~Batch(t) \/ InBatch(position, position, actualSize)
            IN  /\ head' = U32(th[t].head + th[t].acqSize)
                /\ th' = [th EXCEPT ![t].head = 0, ![t].acqSize = 0,
                                    ![t].position = position,
                                    ![t].actualSize = actualSize,
                                    ![t].used = used,
                                    ![t].i = IF Batch(t) THEN position ELSE 0]
                /\ pc' = [pc EXCEPT ![t] = IF enter THEN "get_getSeq" ELSE "done"]
                /\ handed' = IF enter THEN handed ELSE handed + actualSize
                /\ seen' = SeenAfter(tail, U32(th[t].head + th[t].acqSize))
       ELSE /\ th' = [th EXCEPT ![t].head = 0, ![t].used = 0]
            /\ pc' = [pc EXCEPT ![t] = "ag_head"]
            /\ UNCHANGED <<head, handed, seen>>
    /\ UNCHANGED <<capacity, mask, tail, elements, request, h0, produced, published, got, accepted,
                   testVars, calls, nextVal, pre>>

(* -------------------------------- put --------------------------------- *)

\* position == atomic.LoadUint32(&elem.getSeq): the first operand of put's
\* loop condition; when it fails the second is not loaded and the thread
\* yields and tests again.
PutLoadGetSeq(t) ==
    /\ pc[t] = "put_getSeq"
    /\ pc' = [pc EXCEPT ![t] =
                IF PutSeesGetSeq(elements[SlotIndex(PosArg(t))], PosArg(t))
                THEN "put_putSeq" ELSE "put_getSeq"]
    /\ UNCHANGED <<queueVars, histVars, testVars, th, calls, nextVal, pre>>

\* position == atomic.LoadUint32(&elem.putSeq): the second operand.
PutLoadPutSeq(t) ==
    /\ pc[t] = "put_putSeq"
    /\ pc' = [pc EXCEPT ![t] =
                IF PutSeesPutSeq(elements[SlotIndex(PosArg(t))], PosArg(t))
                THEN "put_write" ELSE "put_getSeq"]
    /\ UNCHANGED <<queueVars, histVars, testVars, th, calls, nextVal, pre>>

\* elem.value = value
PutWrite(t) ==
    /\ pc[t] = "put_write"
    /\ elements' = [elements EXCEPT ![SlotIndex(PosArg(t))].value = ValArg(t)]
    /\ pc' = [pc EXCEPT ![t] = "put_add"]
    /\ UNCHANGED <<capacity, mask, head, tail, histVars, testVars, th,
                   calls, nextVal, pre>>

\* atomic.AddUint32(&elem.putSeq, q.capacity), and the return to the caller:
\* Put and MustPut return left; PutEnough steps its loop and returns
\* (actualSize, left) when the loop condition fails.
PutAdd(t) ==
    /\ pc[t] = "put_add"
    /\ elements' = [elements EXCEPT ![SlotIndex(PosArg(t))].putSeq =
                        U32(@ + capacity)]
    /\ published' = published \cup
                        {<<Ticket(PosArg(t)), elements[SlotIndex(PosArg(t))].value>>}
    /\ LET i    == U32(th[t].i + 1)
           more == Batch(t) /\ InBatch(i, th[t].position, th[t].actualSize)
       IN  /\ th' = IF Batch(t) THEN [th EXCEPT ![t].i = i, ![t].j = @ + 1] ELSE th
           /\ pc' = [pc EXCEPT ![t] = IF more THEN "put_getSeq" ELSE "done"]
           /\ accepted' = IF more THEN accepted
                          ELSE accepted + (IF Batch(t) THEN th[t].actualSize ELSE 1)
    /\ UNCHANGED <<capacity, mask, head, tail, request, h0, produced, got, handed,
                   seen, testVars, calls, nextVal, pre>>

(* -------------------------------- get --------------------------------- *)

\* position == atomic.LoadUint32(&elem.getSeq): the first operand of get's
\* loop condition.
GetLoadGetSeq(t) ==
    /\ pc[t] = "get_getSeq"
    /\ pc' = [pc EXCEPT ![t] =
                IF GetSeesGetSeq(elements[SlotIndex(PosArg(t))], PosArg(t))
                THEN "get_putSeq" ELSE "get_getSeq"]
    /\ UNCHANGED <<queueVars, histVars, testVars, th, calls, nextVal, pre>>

\* position == atomic.LoadUint32(&elem.putSeq)-q.capacity: the second operand.
GetLoadPutSeq(t) ==
    /\ pc[t] = "get_putSeq"
    /\ pc' = [pc EXCEPT ![t] =
                IF GetSeesPutSeq(elements[SlotIndex(PosArg(t))], PosArg(t))
                THEN "get_read" ELSE "get_getSeq"]
    /\ UNCHANGED <<queueVars, histVars, testVars, th, calls, nextVal, pre>>

\* val := elem.value
GetRead(t) ==
    /\ pc[t] = "get_read"
    /\ th' = [th EXCEPT ![t].val = elements[SlotIndex(PosArg(t))].value]
    /\ pc' = [pc EXCEPT ![t] = "get_clear"]
    /\ UNCHANGED <<queueVars, histVars, testVars, calls, nextVal, pre>>

\* Mutant: get leaves the value in the slot.
GetKeepsValue(t) ==
    /\ pc[t] = "get_clear"
    /\ pc' = [pc EXCEPT ![t] = "get_add"]
    /\ UNCHANGED <<queueVars, histVars, testVars, th, calls, nextVal, pre>>

\* var empty E; elem.value = empty
GetClear(t) ==
    /\ pc[t] = "get_clear"
    /\ elements' = [elements EXCEPT ![SlotIndex(PosArg(t))].value = Zero]
    /\ pc' = [pc EXCEPT ![t] = "get_add"]
    /\ UNCHANGED <<capacity, mask, head, tail, histVars, testVars, th,
                   calls, nextVal, pre>>

\* atomic.AddUint32(&elem.getSeq, q.capacity), and the return to the caller:
\* Get and MustGet return (val, used); GetEnough appends val to res, steps
\* its loop and returns (res, actualSize, used) when the loop condition fails.
GetAdd(t) ==
    /\ pc[t] = "get_add"
    /\ elements' = [elements EXCEPT ![SlotIndex(PosArg(t))].getSeq =
                        U32(@ + capacity)]
    /\ got' = got \cup {<<Ticket(PosArg(t)), th[t].val>>}
    /\ LET i    == U32(th[t].i + 1)
           more == Batch(t) /\ InBatch(i, th[t].position, th[t].actualSize)
       IN  /\ th' = IF Batch(t)
                    THEN [th EXCEPT ![t].i = i,
                                    ![t].res = Append(@, th[t].val),
                                    ![t].val = Zero]
                    ELSE th
           /\ pc' = [pc EXCEPT ![t] = IF more THEN "get_getSeq" ELSE "done"]
           /\ handed' = IF more THEN handed
                        ELSE handed + (IF Batch(t) THEN th[t].actualSize ELSE 1)
    /\ UNCHANGED <<capacity, mask, head, tail, request, h0, produced, published, accepted,
                   seen, testVars, calls, nextVal, pre>>

(* --------------------------- specifications --------------------------- *)

\* One step of a call that is under way.
Step(t) ==
    \/ AcquirePutLoadHead(t) \/ AcquirePutLoadTail(t) \/ AcquirePutCAS(t)
    \/ AcquireGetLoadHead(t) \/ AcquireGetLoadTail(t) \/ AcquireGetCAS(t)
    \/ PutLoadGetSeq(t) \/ PutLoadPutSeq(t) \/ PutWrite(t) \/ PutAdd(t)
    \/ GetLoadGetSeq(t) \/ GetLoadPutSeq(t) \/ GetRead(t) \/ GetClear(t)
    \/ GetAdd(t)

\* The values a caller passes: fresh ones, so that every element is told
\* from every other.
Fresh(k) == [x \in 1 .. k |-> nextVal + x - 1]

\* The queues the concurrent specifications start from: New(2), with the
\* counters at 0, just below the wrap, and MaxBack below it.
Init == \E h \in {0, Word - 2, Word - MaxBack} : InitAt(2, h)

\* Threads calling the single-element and the batch operations concurrently.
Next ==
    \E t \in Threads :
        \/ /\ calls < MaxCallsBatch
           /\ InTurn(t, Threads)
           /\ UNCHANGED <<pre, test>>
           /\ \/ PutCall(t, nextVal)
              \/ GetCall(t)
              \/ MustPutCall(t, nextVal)
              \/ MustGetCall(t)
              \/ \E k \in 1 .. MaxBatch : PutEnoughCall(t, Fresh(k))
              \/ \E k \in 1 .. MaxBatch : GetEnoughCall(t, k)
        \/ Step(t)

Spec == Init /\ [][Next]_vars

InitSingle == \E h \in {0, Word - 2} : InitAt(2, h)

\* Threads calling Put, Get, MustPut and MustGet concurrently.
NextSingle ==
    \E t \in Threads :
        \/ /\ calls < MaxCalls
           /\ InTurn(t, Threads)
           /\ UNCHANGED <<pre, test>>
           /\ \/ PutCall(t, nextVal)
              \/ GetCall(t)
              \/ MustPutCall(t, nextVal)
              \/ MustGetCall(t)
        \/ Step(t)

SpecSingle == InitSingle /\ [][NextSingle]_vars

\* Threads calling the try variants, Put and Get, concurrently.
NextTry ==
    \E t \in Threads :
        \/ /\ calls < MaxCallsTry
           /\ InTurn(t, Threads)
           /\ UNCHANGED <<pre, test>>
           /\ \/ PutCall(t, nextVal)
              \/ GetCall(t)
        \/ Step(t)

SpecTry == InitSingle /\ [][NextTry]_vars

\* Threads calling Put, Get and Len concurrently.
NextLen ==
    \E t \in Threads :
        \/ /\ calls < MaxCallsLen
           /\ InTurn(t, Threads)
           /\ UNCHANGED <<pre, test>>
           /\ \/ PutCall(t, nextVal)
              \/ GetCall(t)
              \/ LenCall(t)
        \/ LenLoadTail(t) \/ LenLoadHead(t)
        \/ Step(t)

SpecLen == InitSingle /\ [][NextLen]_vars

\* The thread with the least number.
First == CHOOSE t \in Threads : \A u \in Threads : t <= u

\* The queues the sequential specification starts from: New(c) for the
\* requests c, with the counters at 0 and at each value down to MaxBack
\* below the wrap.
InitSeq == \E c \in CapRequests, h \in StartCounters : InitAt(c, h)

\* One call at a time, by one thread: a call starts only when the one before
\* it has returned, and records the queue as it finds it.
NextSeq ==
    LET t == First IN
        \/ /\ calls < MaxCallsSeq
           /\ Quiescent
           /\ pre' = Snap(t)
           /\ UNCHANGED test
           /\ \/ PutCall(t, nextVal)
              \/ GetCall(t)
              \/ \E k \in 0 .. MaxBatch : PutEnoughCall(t, Fresh(k))
              \/ \E k \in 0 .. MaxBatch : GetEnoughCall(t, k)
              \/ LenCall(t)
        \/ LenLoadTail(t) \/ LenLoadHead(t)
        \/ Step(t)

SpecSeq == InitSeq /\ [][NextSeq]_vars

(* ------------------------- TestUint32Overflow ------------------------- *)

\* times := uint32(1.1 * float64(math.MaxUint32/capacity))
Times == (11 * ((Word - 1) \div capacity)) \div 10

\* The test runs on one thread.
Tester == First

\* The test takes the results of the call that returned.
TestTakes ==
    /\ pc' = [pc EXCEPT ![Tester] = "idle"]
    /\ th' = [th EXCEPT ![Tester] = IdleLocals]
    /\ UNCHANGED <<queueVars, histVars, calls, nextVal, pre>>

\* left, err := q.Put(j + 1), in the first inner loop.
TestPut ==
    /\ test.at = "fill"
    /\ pc[Tester] = "idle"
    /\ PutCall(Tester, test.j + 1)
    /\ UNCHANGED <<pre, test>>

\* The checks after Put: err != nil and left != capacity-j-1 fail the test;
\* after capacity rounds the second inner loop starts.
TestPutCheck ==
    /\ test.at = "fill"
    /\ pc[Tester] = "done"
    /\ test' = IF th[Tester].err # "nil" \/ th[Tester].left # capacity - test.j - 1
               THEN [test EXCEPT !.at = "failed"]
               ELSE IF test.j + 1 < capacity
                    THEN [test EXCEPT !.j = @ + 1]
                    ELSE [test EXCEPT !.j = 0, !.at = "drain"]
    /\ TestTakes

\* val, used, err := q.Get(), in the second inner loop.
TestGet ==
    /\ test.at = "drain"
    /\ pc[Tester] = "idle"
    /\ GetCall(Tester)
    /\ UNCHANGED <<pre, test>>

\* The checks after Get: err != nil, used != capacity-j-1 and val != j+1 fail
\* the test; after capacity rounds the next cycle starts, and after times
\* cycles the test asks for Len.
TestGetCheck ==
    /\ test.at = "drain"
    /\ pc[Tester] = "done"
    /\ test' = IF \/ th[Tester].err # "nil"
                  \/ th[Tester].used # capacity - test.j - 1
                  \/ th[Tester].val # test.j + 1
               THEN [test EXCEPT !.at = "failed"]
               ELSE IF test.j + 1 < capacity
                    THEN [test EXCEPT !.j = @ + 1]
                    ELSE IF test.i + 1 < Times
                         THEN [test EXCEPT !.i = @ + 1, !.j = 0, !.at = "fill"]
                         ELSE [test EXCEPT !.i = @ + 1, !.j = 0, !.at = "len"]
    /\ TestTakes

\* q.Len(), after the cycles.
TestLen ==
    /\ test.at = "len"
    /\ pc[Tester] = "idle"
    /\ LenCall(Tester)
    /\ UNCHANGED <<pre, test>>

\* The check after the cycles: Len != 0 fails the test.
TestLenCheck ==
    /\ test.at = "len"
    /\ pc[Tester] = "done"
    /\ test' = [test EXCEPT !.at = IF th[Tester].len # 0 THEN "failed" ELSE "passed"]
    /\ TestTakes

\* The overflow test on a queue fresh from New.
InitOverflow == \E c \in CapRequests : InitAt(c, 0)

NextOverflow ==
    \/ TestPut \/ TestPutCheck \/ TestGet \/ TestGetCheck
    \/ TestLen \/ TestLenCheck
    \/ LenLoadTail(Tester) \/ LenLoadHead(Tester)
    \/ Step(Tester)

SpecOverflow == InitOverflow /\ [][NextOverflow]_vars

(* ------------------------------ TestMust ----------------------------- *)

\* k threads that each call MustPut once, and the threads that make the k
\* calls of MustGet between them, each call once the one before it returned.
MustPutters == 1 .. MustPairs
MustGetters == MustPairs + 1 .. MustPairs + MustGetThreads
Workers == MustPutters \cup MustGetters

\* The calls of MustGet made so far: every call but those of MustPut, which
\* took the values 1 .. nextVal - 1.
MustGetCalls == calls - (nextVal - 1)

\* A thread calls q.MustPut(value), once.
MustPutStart(t) ==
    /\ pc[t] = "idle"
    /\ InTurn(t, MustPutters)
    /\ UNCHANGED <<pre, test>>
    /\ MustPutCall(t, nextVal)

\* A thread calls q.MustGet(), while calls of it are left to make.
MustGetStart(t) ==
    /\ MustGetCalls < MustPairs
    /\ InTurn(t, MustGetters)
    /\ UNCHANGED <<pre, test>>
    /\ MustGetCall(t)

\* New(2), with the counters at 0 and just below the wrap.
InitMust == \E h \in {0, Word - 2} : InitFor(2, h, Workers)

NextMust ==
    \/ \E t \in MustPutters : MustPutStart(t)
    \/ \E t \in MustGetters : MustGetStart(t)
    \/ \E t \in Workers : Step(t)

\* Weakly fair scheduling: every thread makes its calls, and a thread that
\* can take a step of its call is not left out forever.
FairMust ==
    /\ \A t \in MustPutters : WF_vars(MustPutStart(t))
    /\ \A t \in MustGetters : WF_vars(MustGetStart(t))
    /\ \A t \in Workers : WF_vars(Step(t))

SpecMust == InitMust /\ [][NextMust]_vars /\ FairMust

(* -------------------------------- New --------------------------------- *)

\* The capacities New can be asked for: every value of the word.
Requests == 0 .. Word - 1

\* No queue is built yet.
NoQueue == capacity = 0

\* q := New(request): the rounding of the capacity, the mask and the slots.
NewQueue ==
    /\ NoQueue
    /\ capacity' = NewCapacity(request)
    /\ mask' = U32(NewCapacity(request) - 1)
    /\ elements' = NewElements(NewCapacity(request))
    /\ UNCHANGED <<head, tail, pc, th, calls, nextVal, histVars, pre, test>>

\* Before New(request), for every request.
InitNew ==
    /\ request \in Requests
    /\ capacity = 0
    /\ mask = 0
    /\ elements = <<>>
    /\ head = 0
    /\ tail = 0
    /\ pc = [t \in Threads |-> "idle"]
    /\ th = [t \in Threads |-> IdleLocals]
    /\ calls = 0
    /\ nextVal = 1
    /\ h0 = 0
    /\ produced = <<>>
    /\ published = {}
    /\ got = {}
    /\ accepted = 0
    /\ handed = 0
    /\ seen = [t \in Threads |-> NoneSeen]
    /\ pre = NoSnap
    /\ test = [i |-> 0, j |-> 0, at |-> "fill"]

\* New, then calls of Put and Get on the queue it built, one at a time.
NextNew ==
    \/ NewQueue
    \/ /\ ~NoQueue
       /\ calls < MaxCallsNew
       /\ UNCHANGED <<pre, test>>
       /\ \/ PutCall(First, nextVal)
          \/ GetCall(First)
    \/ Step(First)

SpecNew == InitNew /\ [][NextNew]_vars

(* ------------------------------ claims -------------------------------- *)

InFlight(t) == pc[t] \notin {"idle", "done"}

\* Thread u is in put (in get) for position p.
PutsAt(u, p) ==
    pc[u] \in {"put_getSeq", "put_putSeq", "put_write", "put_add"} /\ PosArg(u) = p
GetsAt(u, p) ==
    /\ pc[u] \in {"get_getSeq", "get_putSeq", "get_read", "get_clear", "get_add"}
    /\ PosArg(u) = p

\* A call of thread t that returned without error.
ReturnedOk(t, ops) == pc[t] = "done" /\ th[t].op \in ops /\ th[t].err = "nil"

\* C1: FIFO by reservation order.  The consumer whose CAS on head claimed
\* position p, the n-th reservation of a consumer, returns the value of the
\* n-th reservation of a producer, the one whose CAS on tail claimed p: both
\* for the calls that have just returned and for every get that ever returned.
C1_FifoByReservation ==
    /\ \A t \in Threads :
          ReturnedOk(t, {"Get", "MustGet"}) =>
              /\ Ticket(th[t].position) <= Len(produced)
              /\ th[t].val = produced[Ticket(th[t].position)]
    /\ \A g \in got : g[1] <= Len(produced) /\ g[2] = produced[g[1]]

\* C1 witness: two producers raced for tail and the one called second won;
\* a consumer has received its value, the first of the FIFO order, from a
\* position beyond the counter wrap, while the other producer is still in put.
C1_Witness ==
    \E t, u \in Threads :
        /\ t # u
        /\ ReturnedOk(t, {"Get", "MustGet"})
        /\ Ticket(th[t].position) = 1
        /\ th[t].val = 2
        /\ th[t].position = Word - 1
        /\ PutsAt(u, 0)
        /\ th[u].value = 1

\* C2: no loss and no duplication.  Once every thread has returned, with as
\* many elements removed as inserted, Len() is 0 and every inserted value was
\* returned by exactly one get.
C2_NoLossNoDuplication ==
    (Quiescent /\ accepted = handed) =>
        /\ LenOf(tail, head) = 0
        /\ Len(produced) = accepted
        /\ Cardinality(got) = handed
        /\ got = {<<n, produced[n]>> : n \in 1 .. Len(produced)}
        /\ \A m, n \in 1 .. Len(produced) : produced[m] = produced[n] => m = n

\* C2 witness: Cap() elements went in and out (k = Cap()), across the
\* counter wrap, the producers having raced for tail and the consumers for
\* head.
C2_Witness ==
    /\ Quiescent
    /\ accepted = capacity
    /\ handed = capacity
    /\ produced = <<2, 1>>
    /\ h0 = Word - 2
    /\ \A t \in Threads : th[t].op \in {"Get", "MustGet"} /\ th[t].err = "nil"

\* C3 (as claimed): the distance tail - head never exceeds the capacity.
C3_CapacityBound == usedSize(tail, head) <= capacity

\* A Put or Get of thread t that waits in its slot handshake for a slot that
\* is not ready for its position.
SpinsInPut(t) ==
    /\ pc[t] \in {"put_getSeq", "put_putSeq"}
    /\ LET e == elements[SlotIndex(PosArg(t))]
       IN  ~(PutSeesGetSeq(e, PosArg(t)) /\ PutSeesPutSeq(e, PosArg(t)))
SpinsInGet(t) ==
    /\ pc[t] \in {"get_getSeq", "get_putSeq"}
    /\ LET e == elements[SlotIndex(PosArg(t))]
       IN  ~(GetSeesGetSeq(e, PosArg(t)) /\ GetSeesPutSeq(e, PosArg(t)))

\* C4 (as claimed): a Put or Get that waits in its slot handshake waits for a
\* peer that has reserved its position and is in flight: a Put at p for the
\* consumer of p - capacity, a Get at p for the producer of p.  So a Put or
\* Get that is the only call in flight never waits.
C4_TryNeverBlocks ==
    \A t \in Threads :
        /\ (th[t].op = "Put" /\ SpinsInPut(t)) =>
               \E u \in Threads \ {t} : GetsAt(u, U32(PosArg(t) - capacity))
        /\ (th[t].op = "Get" /\ SpinsInGet(t)) =>
               \E u \in Threads \ {t} : PutsAt(u, PosArg(t))

\* C5 (as claimed): when no call is in flight, Len() is the number of
\* elements accepted by the completed insert calls minus the number handed
\* out by the completed remove calls, and lies in 0 .. Cap().
C5_LengthAccounting ==
    Quiescent =>
        /\ LenOf(tail, head) = accepted - handed
        /\ LenOf(tail, head) <= capacity

\* Thread t is in, or has returned from, a call of one of ops that started on
\* a quiescent queue with no call started since.
StartedQuiescent(t, ops) ==
    /\ pc[t] # "idle"
    /\ th[t].op \in ops
    /\ pre.quiescent
    /\ pre.thread = t

\* The queue is as that call found it.
QueueAsFound ==
    /\ head = pre.head
    /\ tail = pre.tail
    /\ elements = pre.elements

\* C6 (as claimed): on a quiescent empty queue, wherever the counters stand,
\* PutEnough of 1 .. Cap() values returns (len, Cap() - len) and writes every
\* value to the slot of its position, and a GetEnough(len) right after it
\* returns exactly these values in order, with granted len and remaining 0.
C6_BatchRoundTrip ==
    \A t \in Threads :
        /\ ( /\ StartedQuiescent(t, {"PutEnough"})
             /\ pc[t] = "done"
             /\ pre.head = pre.tail
             /\ th[t].size \in 1 .. capacity ) =>
               /\ th[t].actualSize = th[t].size
               /\ th[t].left = capacity - th[t].size
               /\ \A k \in 1 .. th[t].size :
                      elements[SlotIndex(U32(pre.tail + k))].value = th[t].values[k]
        /\ ( /\ StartedQuiescent(t, {"GetEnough"})
             /\ pc[t] = "done"
             /\ pre.lastOnEmpty
             /\ pre.last.op = "PutEnough"
             /\ pre.last.size \in 1 .. capacity
             /\ th[t].size = pre.last.size ) =>
               /\ th[t].res = pre.last.values
               /\ th[t].actualSize = th[t].size
               /\ th[t].used = 0

\* C7: the overflow test never fails.  In every cycle the j-th Put succeeds
\* and returns Cap() - j - 1, the j-th Get succeeds and returns the j-th value
\* put in the cycle with remaining Cap() - j - 1, and the queue is empty
\* between the cycles and at the end, while the counters and the slots'
\* sequence numbers pass the wrap.
C7_WrapSafe ==
    /\ test.at # "failed"
    /\ (pc[Tester] = "done" /\ th[Tester].op = "Put") =>
           /\ th[Tester].err = "nil"
           /\ th[Tester].left = capacity - test.j - 1
    /\ (pc[Tester] = "done" /\ th[Tester].op = "Get") =>
           /\ th[Tester].err = "nil"
           /\ th[Tester].val = test.j + 1
           /\ th[Tester].used = capacity - test.j - 1
    /\ (pc[Tester] = "done" /\ th[Tester].op = "Len") => th[Tester].len = 0
    /\ (pc[Tester] = "idle" /\ test.j = 0 /\ test.at \in {"fill", "len", "passed"}) =>
           LenOf(tail, head) = 0

\* C7 witness: the test passed after more elements than the counters can
\* count, so head and tail have wrapped.
C7_Witness ==
    /\ test.at = "passed"
    /\ test.i * capacity > Word
    /\ tail = U32(test.i * capacity)
    /\ tail < test.i * capacity
    /\ head = tail

\* C8: a Put, or a PutEnough of at least one value, that starts on a
\* quiescent full queue leaves head, tail and every slot as they were, Put
\* returns ErrQueueIsFull and PutEnough returns (0, 0).
C8_PutOnFull ==
    \A t \in Threads :
        ( /\ StartedQuiescent(t, {"Put", "PutEnough"})
          /\ LenOf(pre.tail, pre.head) = capacity
          /\ th[t].op = "PutEnough" => th[t].size >= 1 ) =>
            /\ QueueAsFound
            /\ pc[t] = "done" =>
                  /\ th[t].err = "ErrQueueIsFull"
                  /\ th[t].actualSize = 0
                  /\ th[t].left = 0

\* C8 witness: a Put on a full queue has returned ErrQueueIsFull.
C8_Witness ==
    \E t \in Threads :
        /\ StartedQuiescent(t, {"Put"})
        /\ LenOf(pre.tail, pre.head) = capacity
        /\ pc[t] = "done"
        /\ th[t].err = "ErrQueueIsFull"

\* C9: a Get, or a GetEnough of at least one element, that starts on a
\* quiescent empty queue leaves head, tail and every slot as they were, Get
\* returns ErrQueueIsEmpty with the zero value and GetEnough returns no
\* values and granted 0.
C9_GetOnEmpty ==
    \A t \in Threads :
        ( /\ StartedQuiescent(t, {"Get", "GetEnough"})
          /\ LenOf(pre.tail, pre.head) = 0
          /\ th[t].op = "GetEnough" => th[t].size >= 1 ) =>
            /\ QueueAsFound
            /\ pc[t] = "done" =>
                  /\ th[t].err = "ErrQueueIsEmpty"
                  /\ th[t].val = Zero
                  /\ th[t].res = <<>>
                  /\ th[t].actualSize = 0
                  /\ th[t].used = 0

\* C9 witness: a Get on a queue that was filled and drained again has
\* returned ErrQueueIsEmpty.
C9_Witness ==
    \E t \in Threads :
        /\ StartedQuiescent(t, {"Get"})
        /\ LenOf(pre.tail, pre.head) = 0
        /\ pre.head # h0
        /\ pc[t] = "done"
        /\ th[t].err = "ErrQueueIsEmpty"

\* The positions p+1 .. p+n are reached without passing the counter wrap.
NoWrap(p, n) == p + n < Word

\* C10 (as claimed): on a quiescent queue with f >= 1 free slots whose
\* reserved range does not cross the wrap, PutEnough of more than f values
\* returns (f, 0) and inserts exactly the first f values, in order; and
\* GetEnough of more than the u >= 1 queued elements returns exactly these, in
\* FIFO order, with (u, 0).
C10_PartialBatch ==
    \A t \in Threads :
        /\ ( /\ StartedQuiescent(t, {"PutEnough"})
             /\ pc[t] = "done"
             /\ leftSize(pre.tail, pre.head) \in 1 .. capacity
             /\ th[t].size > leftSize(pre.tail, pre.head)
             /\ NoWrap(pre.tail, leftSize(pre.tail, pre.head)) ) =>
               LET f == leftSize(pre.tail, pre.head)
               IN  /\ th[t].actualSize = f
                   /\ th[t].left = 0
                   /\ tail = pre.tail + f
                   /\ \A k \in 1 .. f :
                          elements[SlotIndex(pre.tail + k)].value = th[t].values[k]
        /\ ( /\ StartedQuiescent(t, {"GetEnough"})
             /\ pc[t] = "done"
             /\ usedSize(pre.tail, pre.head) \in 1 .. capacity
             /\ th[t].size > usedSize(pre.tail, pre.head)
             /\ NoWrap(pre.head, usedSize(pre.tail, pre.head)) ) =>
               LET u == usedSize(pre.tail, pre.head)
               IN  /\ th[t].actualSize = u
                   /\ th[t].used = 0
                   /\ th[t].res = [k \in 1 .. u |-> produced[Ticket(pre.head + k)]]

RECURSIVE LeastPowerOfTwo(_, _)
\* The least power of two that is >= c, searched upwards from p.
LeastPowerOfTwo(c, p) == IF p >= c THEN p ELSE LeastPowerOfTwo(c, 2 * p)

\* The capacity the claim gives New(c): 2 up to c = 2, the least power of
\* two >= c up to half the word, and half the word above it.
ClaimedCapacity(c) ==
    IF c <= 2 THEN 2
    ELSE IF c <= Word \div 2 THEN LeastPowerOfTwo(c, 2)
    ELSE Word \div 2

\* C11 (as claimed): for every request c of the word, New(c).Cap() is a power
\* of two between 2 and half the word: 2 for c <= 2, the least power of two
\* >= c for c up to half the word, half the word above it.
C11_ConstructorRounding ==
    ~NoQueue =>
        /\ capacity = ClaimedCapacity(request)
        /\ capacity \in {2 ^ k : k \in 1 .. WordBits - 1}

\* Every call of MustPut and of MustGet has been made and has returned.
AllReturned ==
    /\ \A t \in Workers : pc[t] \in {"idle", "done"}
    /\ accepted = MustPairs
    /\ handed = MustPairs

\* C12: with weakly fair scheduling, when k threads each call MustPut once
\* and MustGet is called k times, k above the capacity included, every call
\* eventually returns.
C12_MustProgress == <>AllReturned

\* C12 witness: more producers than the queue has slots called MustPut, one
\* of them was granted the first position of the second lap, every thread
\* that calls MustGet made a call, and every one of the 2k calls has returned.
C12_Witness ==
    /\ MustPairs > capacity
    /\ AllReturned
    /\ \E t \in MustPutters : th[t].position = U32(h0 + capacity + 1)
    /\ \A t \in MustGetters : pc[t] = "done"

\* Thread t has passed the handshake of slot s and has not yet performed its
\* atomic add on it: a producer about to write or to publish, a consumer
\* about to read, to clear or to release.
InWindow(t, s) ==
    /\ pc[t] \in {"put_write", "put_add", "get_read", "get_clear", "get_add"}
    /\ SlotIndex(PosArg(t)) = s

\* C13: exclusive slot access.  With the two loads of a handshake taken as
\* separate steps, at most one thread at a time is between passing the
\* handshake of a slot and its atomic add on that slot, so no value is written
\* by two producers, or by a producer while a consumer reads it.
C13_ExclusiveSlotAccess ==
    \A s \in DOMAIN elements :
        \A t, u \in Threads : (InWindow(t, s) /\ InWindow(u, s)) => t = u

\* C13 witness: a producer has written its value and is about to publish it,
\* while the consumer of the same position is between the two loads of its
\* handshake on that slot.
C13_Witness ==
    \E t, u \in Threads :
        /\ pc[t] = "put_add"
        /\ pc[u] = "get_putSeq"
        /\ PosArg(u) = PosArg(t)

\* Thread t is in, or has returned from, a PutEnough that was granted slots.
Granted(t) ==
    /\ th[t].op = "PutEnough"
    /\ th[t].actualSize >= 1
    /\ pc[t] \in {"put_getSeq", "put_putSeq", "put_write", "put_add", "done"}

\* The positions start .. start+g-1 do not pass the counter wrap.
InOneLap(start, g) == start + g - 1 < Word

\* C14 (as claimed): a PutEnough granted g slots at start .. start+g-1, a
\* range that does not cross the counter wrap, holds these positions alone:
\* the FIFO order has values[1..g] there, in argument order; it publishes
\* them in ascending order, all of them once it has returned; and a consumer
\* of one of these positions receives the value of that argument.
C14_BatchContiguity ==
    \A t \in Threads :
        (Granted(t) /\ InOneLap(th[t].position, th[t].actualSize)) =>
            LET g     == th[t].actualSize
                first == Ticket(th[t].position)
                sofar == IF pc[t] = "done" THEN g ELSE th[t].j
            IN  \A k \in 1 .. g :
                    /\ first + k - 1 <= Len(produced)
                    /\ produced[first + k - 1] = th[t].values[k]
                    /\ (<<first + k - 1, th[t].values[k]>> \in published) <=> (k <= sofar)
                    /\ \A x \in got : x[1] = first + k - 1 => x[2] = th[t].values[k]

\* C15 (as claimed): no spurious Full.  A reservation attempt of Put,
\* PutEnough or MustPut finds the queue full (Put returns ErrQueueIsFull,
\* PutEnough (0, 0), MustPut tries again) only if the queue had no free slot
\* at some instant between the attempt's load of head and its load of tail.
C15_NoSpuriousFull == \A t \in Threads : seen[t].sawFull => seen[t].full

\* C16: no spurious Empty.  A reservation attempt of Get, GetEnough or
\* MustGet finds the queue empty (Get returns ErrQueueIsEmpty, GetEnough
\* nothing, MustGet tries again) only if head = tail held at the attempt's
\* load of tail.
C16_NoSpuriousEmpty == \A t \in Threads : seen[t].sawEmpty => seen[t].empty

\* C16 witness: a Get has returned ErrQueueIsEmpty from a queue that elements
\* have gone through, while a call of another thread is in flight.
C16_Witness ==
    \E t \in Threads :
        /\ pc[t] = "done"
        /\ th[t].op = "Get"
        /\ th[t].err = "ErrQueueIsEmpty"
        /\ seen[t].sawEmpty
        /\ head # h0
        /\ \E u \in Threads \ {t} : InFlight(u)

\* C17 (as claimed): the remaining counts stay in range.  A successful Put
\* or MustPut returns at most Cap() - 1 free slots, a PutEnough granted
\* g >= 1 slots returns (g, r) with g + r <= Cap(), and a successful Get or
\* MustGet returns at most Cap() - 1 remaining elements.
C17_RemainingInRange ==
    \A t \in Threads :
        (pc[t] = "done" /\ th[t].err = "nil") =>
            /\ th[t].op \in {"Put", "MustPut"} => th[t].left <= capacity - 1
            /\ (th[t].op = "PutEnough" /\ th[t].actualSize >= 1) =>
                   th[t].actualSize + th[t].left <= capacity
            /\ th[t].op \in {"Get", "MustGet"} => th[t].used <= capacity - 1

\* C18 (as claimed): every value Len() returns, calls that overlap Put and
\* Get calls of other threads included, lies in 0 .. Cap().
C18_LenInRange ==
    \A t \in Threads :
        (pc[t] = "done" /\ th[t].op = "Len") => th[t].len <= capacity

\* C19: the slot sequence invariant.  For every slot index i, putSeq and
\* getSeq are congruent to i modulo the capacity, and putSeq - getSeq is 0
\* (drained) or the capacity (filled).
C19_SlotSequence ==
    \A i \in DOMAIN elements :
        /\ elements[i].putSeq % capacity = i
        /\ elements[i].getSeq % capacity = i
        /\ U32(elements[i].putSeq - elements[i].getSeq) \in {0, capacity}

\* C19 witness: a slot is filled for a position beyond the counter wrap while
\* the other slot is drained, elements having gone through both.
C19_Witness ==
    \E i, j \in DOMAIN elements :
        /\ U32(elements[i].putSeq - elements[i].getSeq) = capacity
        /\ elements[i].putSeq < elements[i].getSeq
        /\ elements[j].putSeq = elements[j].getSeq
        /\ handed >= 1

\* A producer is between the handshake of slot s and its update of putSeq.
ProducerIn(s) ==
    \E t \in Threads :
        pc[t] \in {"put_write", "put_add"} /\ SlotIndex(PosArg(t)) = s

\* C20: consumed slots are cleared.  Every slot with putSeq = getSeq that no
\* producer is writing holds the zero value: a consumer clears the slot
\* before it adds the capacity to getSeq.
C20_ConsumedSlotsCleared ==
    \A s \in DOMAIN elements :
        (elements[s].putSeq = elements[s].getSeq /\ ~ProducerIn(s)) =>
            elements[s].value = Zero

\* C20 witness: a consumer has returned an element, and the slot it took it
\* from is released for the next lap with the zero value in it.
C20_Witness ==
    \E t \in Threads :
        /\ ReturnedOk(t, {"Get", "MustGet"})
        /\ th[t].val # Zero
        /\ LET e == elements[SlotIndex(th[t].position)]
           IN  /\ e.getSeq = U32(th[t].position + capacity)
               /\ e.putSeq = e.getSeq
               /\ e.value = Zero

====
